---- MODULE Spec2Model ----
(***************************************************************************)
(* Tour.js v1.1.0 (src/src/classes/Tour.js, src/src/classes/Spotlight.js): *)
(* the step-sequencing state machine of a Tour instance, the window-level  *)
(* handler slots it writes, its two debounce timers, and the session       *)
(* storage entry written by save() and read by getSavedTour().             *)
(*                                                                         *)
(* A handler is one action.  Inside a handler the JavaScript statements    *)
(* are applied in source order to a record W holding the whole program     *)
(* state; an uncaught exception stops the handler at the statement that    *)
(* raised it and keeps the assignments made before it.                     *)
(***************************************************************************)
EXTENDS Integers, Sequences, FiniteSets, TLC

(***************************************************************************)
(* Bounds of the model.                                                    *)
(***************************************************************************)
\* longest step list a tour is constructed with
MaxSteps == 2
\* previous() is not called once the index is this far below 0
MaxBelow == 1
\* next() is not called once the index is this far above the last index + 1
MaxAbove == 1
\* start() runs its body at most this many times per tour
MaxStarts == 2
\* largest width and height, in pixels, of a viewport and of a popup
MaxSide == 3
\* largest padding, in pixels, a Spotlight is constructed with
MaxPadding == 1

(***************************************************************************)
(* Values.                                                                 *)
(***************************************************************************)
\* JavaScript null / undefined
Null == "null"

\* the Tour instances of a page: the one the page constructs and the one
\* getSavedTour() returns
Tours == {"page", "loaded"}

\* ids of the elements the document holds
Elements == {"a", "b"}

\* a step's id when the step object has no id member
NoId == "undefined"

\* the literal "PLACEHOLDER-" of updatePopup, one character per item
PLACEHOLDER == <<"P", "L", "A", "C", "E", "H", "O", "L", "D", "E", "R", "-">>

\* the step objects of the page, in the order the page lists them: a step on
\* element a whose text holds a placeholder, a step on element b whose text
\* holds that placeholder twice, a step without an id, a step whose id names
\* no element of the document, and a second step on element a whose text
\* holds a placeholder no variable is given for
PageSteps ==
    << [id |-> "a", text |-> <<"H", "i", " ">> \o PLACEHOLDER \o <<"n">>],
       [id |-> "b", text |-> PLACEHOLDER \o <<"n", "+">> \o PLACEHOLDER \o <<"n">>],
       [id |-> NoId, text |-> <<"O", "k">>],
       [id |-> "ghost", text |-> <<"U", "h">>],
       [id |-> "a", text |-> <<"E", "n", "d", " ">> \o PLACEHOLDER \o <<"x">>] >>

\* the step lists a tour is constructed with: the runs of up to MaxSteps
\* consecutive steps of the page
StepLists ==
    { SubSeq(PageSteps, w[1], w[2]) :
        w \in { v \in (1..Len(PageSteps)) \X (1..Len(PageSteps)) :
                  v[1] <= v[2] /\ v[2] - v[1] < MaxSteps } }

\* the objects passed to setOptions(): no member, or one member
OptionInputs ==
    { [k \in {} |-> TRUE],
      [spotlight |-> FALSE],
      [disableScroll |-> FALSE] }

\* the objects passed to setTextVariables(), as ordered name/value members
TextVariableInputs ==
    { << [name |-> <<"n">>, value |-> <<"S", "a", "m">>] >> }

(***************************************************************************)
(* The program state.                                                      *)
(***************************************************************************)
VARIABLES
    tours,          \* the Tour instances constructed so far
    steps,          \* this.steps
    step,           \* this.step
    currentState,   \* this.currentState: 0 configuring, 1 started, 2 finished
    currentElement, \* this.currentElement: an element id or Null
    popupElement,   \* this.popupElement: Null, "attached" (in the document) or "detached"
    popupHtml,      \* what updatePopup last wrote into the popup, or EmptyHtml
    popupPos,       \* where movePopup last put the popup: "unset", "center" or the target element
    spotlight,      \* this.spotlight: Null, or a Spotlight whose four panels are "attached" / "detached"
    spotlightAt,    \* what the panels were last placed around: "initial", "blackout" or the target element
    strayPanels,    \* panels in the document owned by Spotlight objects the tour no longer references
    options,        \* this.options
    textVariables,  \* this.textVariables
    observed,       \* the elements this.resizeObserver observes
    elemTimer,      \* the 20 ms timeout of the resize observer's callback is pending
    winTimer,       \* the 100 ms timeout of the tour's latest window.onresize closure is pending
    staleTimers,    \* pending 100 ms timeouts of closures that start() has since replaced
    onresize,       \* window.onresize: "unset", "noop", or the tour whose closure it holds
    onscroll,       \* window.onscroll: "unset", "noop", or the tour whose scroll lock it holds
    storage,        \* sessionStorage, by key
    run,            \* observation: next() calls and endTour() runs since a start() at index 0
    starts,         \* observation: how many times start() ran its body
    roundTrip,      \* observation: the latest save() and the getSavedTour() that followed it, or a getSavedTour() that failed, or the timeout that has just run
    spot,           \* a Spotlight object of its own: its viewport, padding, panels, and the last calls on it
    layout          \* a popup and a window of given sizes, and what getCenterPos() returned for them

vars ==
    << tours, steps, step, currentState, currentElement, popupElement, popupHtml,
       popupPos, spotlight, spotlightAt, strayPanels, options, textVariables,
       observed, elemTimer, winTimer, staleTimers, onresize, onscroll, storage,
       run, starts, roundTrip, spot, layout >>

\* the variables of the tours of a page
tourVars ==
    << tours, steps, step, currentState, currentElement, popupElement, popupHtml,
       popupPos, spotlight, spotlightAt, strayPanels, options, textVariables,
       observed, elemTimer, winTimer, staleTimers, onresize, onscroll, storage,
       run, starts, roundTrip >>

\* the program state as one record, with what the running handler did so far:
\* the exception it raised, its makeStep() and endTour() calls, its warning,
\* the instance it returned
Cur ==
    [ tours |-> tours, steps |-> steps, step |-> step, currentState |-> currentState,
      currentElement |-> currentElement, popupElement |-> popupElement,
      popupHtml |-> popupHtml, popupPos |-> popupPos, spotlight |-> spotlight,
      spotlightAt |-> spotlightAt, strayPanels |-> strayPanels, options |-> options,
      textVariables |-> textVariables, observed |-> observed, elemTimer |-> elemTimer,
      winTimer |-> winTimer, staleTimers |-> staleTimers, onresize |-> onresize,
      onscroll |-> onscroll, storage |-> storage, starts |-> starts,
      threw |-> "none", made |-> 0, ended |-> 0,
      warned |-> FALSE, returned |-> Null ]

\* an uncaught exception e raised in state W
Throw(W, e) == [W EXCEPT !.threw = e]

\* the handler has not thrown so far
Running(W) == W.threw = "none"

\* the statement F runs next, unless the handler has thrown
Then(W, F(_)) == IF Running(W) THEN F(W) ELSE W

(***************************************************************************)
(* Pure functions of Tour.js.                                              *)
(***************************************************************************)
\* the first index at which pat occurs in text, 0 when it does not occur
IndexOf(text, pat) ==
    LET hits == { i \in 1..(Len(text) - Len(pat) + 1) :
                    SubSeq(text, i, i + Len(pat) - 1) = pat }
    IN IF hits = {} THEN 0 ELSE CHOOSE i \in hits : \A j \in hits : i <= j

\* String.prototype.replace with a string pattern: the first occurrence only
Replace(text, pat, val) ==
    LET i == IndexOf(text, pat)
    IN IF i = 0 THEN text
       ELSE SubSeq(text, 1, i - 1) \o val \o SubSeq(text, i + Len(pat), Len(text))

\* the loop of updatePopup over the members of this.textVariables, in order
RECURSIVE FormatText(_, _)
FormatText(text, variables) ==
    IF variables = <<>> THEN text
    ELSE FormatText(Replace(text, PLACEHOLDER \o Head(variables).name, Head(variables).value),
                    Tail(variables))

\* the text variables as the Text variables section of the README describes
\* them: every PLACEHOLDER-name of the text stands for the value given for name
RECURSIVE ReplaceAll(_, _, _)
ReplaceAll(text, pat, val) ==
    LET i == IndexOf(text, pat)
    IN IF i = 0 THEN text
       ELSE SubSeq(text, 1, i - 1) \o val
            \o ReplaceAll(SubSeq(text, i + Len(pat), Len(text)), pat, val)

RECURSIVE FormatAll(_, _)
FormatAll(text, variables) ==
    IF variables = <<>> THEN text
    ELSE FormatAll(ReplaceAll(text, PLACEHOLDER \o Head(variables).name, Head(variables).value),
                   Tail(variables))

\* the members of variables, those with the longest names first: the order
\* in which no placeholder is taken for the beginning of a longer one
RECURSIVE LongestFirst(_)
LongestFirst(variables) ==
    IF variables = <<>> THEN <<>>
    ELSE LET i == CHOOSE k \in DOMAIN variables :
                    /\ \A j \in DOMAIN variables :
                          Len(variables[j].name) <= Len(variables[k].name)
                    /\ \A j \in 1..(k - 1) :
                          Len(variables[j].name) < Len(variables[k].name)
         IN <<variables[i]>>
            \o LongestFirst(SubSeq(variables, 1, i - 1)
                            \o SubSeq(variables, i + 1, Len(variables)))

\* the button labels of updatePopup for a language option
Labels(lang) ==
    IF lang = "fr"
    THEN [prev |-> "Retour", next |-> "Suivant", end |-> "Terminer le tour"]
    ELSE [prev |-> "Previous", next |-> "Next", end |-> "End tour"]

\* the decimal digits
DigitChar(d) == <<"0", "1", "2", "3", "4", "5", "6", "7", "8", "9">>[d + 1]

IsDigit(c) == \E d \in 0..9 : DigitChar(d) = c

DigitValue(c) == CHOOSE d \in 0..9 : DigitChar(d) = c

RECURSIVE Digits(_)
Digits(n) == IF n < 10 THEN <<DigitChar(n)>> ELSE Digits(n \div 10) \o <<DigitChar(n % 10)>>

\* Number.prototype.toString of an integer
toString(n) == IF n < 0 THEN <<"-">> \o Digits(0 - n) ELSE Digits(n)

\* the value of the leading digits of s from position i on
RECURSIVE ParseDigits(_, _, _)
ParseDigits(s, i, acc) ==
    IF i > Len(s) \/ ~IsDigit(s[i]) THEN acc
    ELSE ParseDigits(s, i + 1, acc * 10 + DigitValue(s[i]))

\* parseInt of a string: an optional sign, then the leading digits
ParseInt(s) ==
    LET signed == s # <<>> /\ s[1] \in {"-", "+"}
        body == IF signed THEN Tail(s) ELSE s
    IN IF body = <<>> \/ ~IsDigit(body[1]) THEN "NaN"
       ELSE IF signed /\ s[1] = "-" THEN 0 - ParseDigits(body, 1, 0)
       ELSE ParseDigits(body, 1, 0)

\* the options setOptions(o) assigns: a member of o, or the parameter default
OptionsOf(o) ==
    [ disableScroll |-> IF "disableScroll" \in DOMAIN o THEN o.disableScroll ELSE TRUE,
      spotlight |-> IF "spotlight" \in DOMAIN o THEN o.spotlight ELSE TRUE,
      language |-> IF "language" \in DOMAIN o THEN o.language ELSE "en",
      scrollMargin |-> IF "scrollMargin" \in DOMAIN o THEN o.scrollMargin ELSE 50 ]

\* the test of next() with <= written for <
StepInRangeOffByOne(i, n) == i <= n

\* this.step < this.steps.length, the test of next()
StepInRange(i, n) == i < n

\* isLastStep() comparing with the length
isLastStepOffByOne(W, t) == W.step[t] = Len(W.steps[t])

\* isLastStep()
isLastStep(W, t) == W.step[t] = Len(W.steps[t]) - 1

\* this.steps[this.step] is an object: the index names a step of the list
HasStep(W, t) == W.step[t] \in 0 .. Len(W.steps[t]) - 1

\* this.steps[this.step]
StepAt(W, t) == W.steps[t][W.step[t] + 1]

(***************************************************************************)
(* Spotlight.js.                                                           *)
(***************************************************************************)
\* new Spotlight(10): create() appends four panels to the document; the
\* panels of the Spotlight the tour referenced before stay where they are
SpotlightNew(W, t) ==
    [W EXCEPT !.strayPanels[t] = IF W.spotlight[t] = "attached" THEN @ + 4 ELSE @,
              !.spotlight[t] = "attached",
              !.spotlightAt[t] = "initial"]

\* this.spotlight.move(element); this.spotlight may be null or undefined
SpotlightMove(W, t, element) ==
    IF W.spotlight[t] = Null THEN Throw(W, "TypeError")
    ELSE [W EXCEPT !.spotlightAt[t] = element]

\* this.spotlight.blackout()
SpotlightBlackout(W, t) ==
    IF W.spotlight[t] = Null THEN Throw(W, "TypeError")
    ELSE [W EXCEPT !.spotlightAt[t] = "blackout"]

\* this.spotlight.kill(): every panel is removed from the document, the
\* array keeps its four items
SpotlightKill(W, t) ==
    IF W.spotlight[t] = Null THEN Throw(W, "TypeError")
    ELSE [W EXCEPT !.spotlight[t] = "detached"]

(***************************************************************************)
(* Spotlight.js, with the geometry of the panels.  A Spotlight S is a      *)
(* record: its padding, the style boxes of the items of this.spotlight,    *)
(* whether those elements are in the document, the viewport they are laid  *)
(* out in, and what its last call reported or raised.  Lengths are pixels. *)
(***************************************************************************)
\* the sizes of a viewport
Viewports == [width : 1..MaxSide, height : 1..MaxSide]

\* element.getBoundingClientRect() of the elements that lie inside viewport vp
RectsIn(vp) ==
    { r \in [left : 0..vp.width, top : 0..vp.height,
             width : 0..vp.width, height : 0..vp.height] :
        r.left + r.width <= vp.width /\ r.top + r.height <= vp.height }

\* the box the style sheet gives an element of class tour-overlay: fixed at
\* the origin of the viewport, as wide and as high as the viewport
PanelCss(vp) == [left |-> 0, top |-> 0, width |-> vp.width, height |-> vp.height]

\* getBoundingClientRect() of an element that is not in the document
ZeroRect == [left |-> 0, top |-> 0, width |-> 0, height |-> 0]

\* this.spotlight[i].getBoundingClientRect()
PanelRect(S, i) == IF S.attached THEN S.spotlight[i + 1] ELSE ZeroRect

\* create(): four elements are appended to the document and pushed
create(S) ==
    [S EXCEPT !.spotlight = @ \o [i \in 1..4 |-> PanelCss(S.viewport)],
              !.attached = TRUE]

\* new Spotlight(padding) in viewport vp
newSpotlight(vp, padding) ==
    create([ viewport |-> vp, padding |-> padding, spotlight |-> <<>>,
             attached |-> FALSE, reported |-> FALSE, threw |-> "none",
             target |-> ZeroRect, log |-> <<"new", "new">> ])

\* move(element) with the right panel placed at rect.right, its padding left out
moveUnpaddedRight(S, rect) ==
    [S EXCEPT !.spotlight[1].top = rect.top - S.padding - PanelRect(S, 0).height,
              !.spotlight[2].left = rect.left + rect.width,
              !.spotlight[2].top = rect.top - S.padding,
              !.spotlight[3].top = rect.top + rect.height + S.padding,
              !.spotlight[4].left = rect.left - S.padding - PanelRect(S, 3).width,
              !.spotlight[4].top = rect.top - S.padding,
              !.spotlight[4].height = rect.height + (S.padding * 2),
              !.spotlight[2].height = rect.height + (S.padding * 2)]

\* move(element), rect being element.getBoundingClientRect()
move(S, rect) ==
    [S EXCEPT !.spotlight[1].top = rect.top - S.padding - PanelRect(S, 0).height,
              !.spotlight[2].left = rect.left + rect.width + S.padding,
              !.spotlight[2].top = rect.top - S.padding,
              !.spotlight[3].top = rect.top + rect.height + S.padding,
              !.spotlight[4].left = rect.left - S.padding - PanelRect(S, 3).width,
              !.spotlight[4].top = rect.top - S.padding,
              !.spotlight[4].height = rect.height + (S.padding * 2),
              !.spotlight[2].height = rect.height + (S.padding * 2)]

\* blackout() with the top panel pulled above the viewport
blackoutAbove(S) ==
    [S EXCEPT !.spotlight[1].top = 0 - PanelRect(S, 0).height,
              !.spotlight[2].left = PanelRect(S, 1).width,
              !.spotlight[3].top = PanelRect(S, 2).height,
              !.spotlight[4].left = 0 - PanelRect(S, 3).width]

\* blackout()
blackout(S) ==
    [S EXCEPT !.spotlight[1].top = 0,
              !.spotlight[2].left = PanelRect(S, 1).width,
              !.spotlight[3].top = PanelRect(S, 2).height,
              !.spotlight[4].left = 0 - PanelRect(S, 3).width]

\* kill() that empties the array and fails when there is nothing to remove
killOnce(S) ==
    IF S.attached THEN [S EXCEPT !.attached = FALSE]
    ELSE [S EXCEPT !.threw = "TypeError"]

\* kill(): every element of the array is removed from the document; the
\* array keeps its items
kill(S) ==
    IF Len(S.spotlight) # 0 THEN [S EXCEPT !.attached = FALSE] ELSE S

\* the part of the plane a box covers, as unit cells
Covers(box, x, y) ==
    /\ box.left <= x /\ x < box.left + box.width
    /\ box.top <= y /\ y < box.top + box.height

\* the panels of S that mask the cell (x, y): those in the document covering it
Masking(S, x, y) ==
    { i \in 1..Len(S.spotlight) : S.attached /\ Covers(S.spotlight[i], x, y) }

\* the cells of the viewport of S
Cells(S) == (0 .. S.viewport.width - 1) \X (0 .. S.viewport.height - 1)

\* rect expanded by padding p on each side
Padded(rect, p) ==
    [left |-> rect.left - p, top |-> rect.top - p,
     width |-> rect.width + 2 * p, height |-> rect.height + 2 * p]

\* two boxes have a cell in common
Overlap(a, b) ==
    /\ a.width > 0 /\ a.height > 0 /\ b.width > 0 /\ b.height > 0
    /\ a.left < b.left + b.width /\ b.left < a.left + a.width
    /\ a.top < b.top + b.height /\ b.top < a.top + a.height

(***************************************************************************)
(* getCenterPos().  JavaScript's / is exact on the halves of integers; a   *)
(* number is kept as a fraction.                                           *)
(***************************************************************************)
\* n / d
Quot(n, d) == [num |-> n, den |-> d]

\* a - b
Minus(a, b) == [num |-> a.num * b.den - b.num * a.den, den |-> a.den * b.den]

\* a + b
Plus(a, b) == [num |-> a.num * b.den + b.num * a.den, den |-> a.den * b.den]

\* a == b
SameNumber(a, b) == a.num * b.den = b.num * a.den

\* getCenterPos() with each half rounded down to a whole pixel
getCenterPosFloored(window, popupRect) ==
    [ x |-> Minus(Quot(window.innerWidth \div 2, 1), Quot(popupRect.width \div 2, 1)),
      y |-> Minus(Quot(window.innerHeight \div 2, 1), Quot(popupRect.height \div 2, 1)) ]

\* getCenterPos(), popupRect being this.popupElement.getBoundingClientRect()
getCenterPos(window, popupRect) ==
    [ x |-> Minus(Quot(window.innerWidth, 2), Quot(popupRect.width, 2)),
      y |-> Minus(Quot(window.innerHeight, 2), Quot(popupRect.height, 2)) ]

(***************************************************************************)
(* getPopupPos(), as a function of the rectangles it reads after it has    *)
(* scrolled the target into view.                                          *)
(***************************************************************************)
\* const offset = 10
offset == 10

\* a whole number of pixels
Whole(n) == Quot(n, 1)

\* a < b
Less(a, b) == a.num * b.den < b.num * a.den

\* Math.abs(a)
Abs(a) == [num |-> IF a.num < 0 THEN 0 - a.num ELSE a.num, den |-> a.den]

\* the test of the width with < written for <=
IsWideStrict(docRect, rect) ==
    Less(Whole(docRect.width - rect.width), Quot(docRect.width, 2))

\* docRect.width - rect.width <= docRect.width / 2
IsWide(docRect, rect) ==
    ~Less(Quot(docRect.width, 2), Whole(docRect.width - rect.width))

\* pos as getPopupPos() has it before Math.abs, with the branch that set it:
\* "bottom", "top", "right", "left", or "under" for the placement under the
\* element that replaces a side with too little room
PlacedAt(docRect, rect, popupRect, window) ==
    LET right == rect.left + rect.width
        bottom == rect.top + rect.height
        midX == Minus(Plus(Whole(rect.left), Quot(rect.width, 2)), Quot(popupRect.width, 2))
        midY == Minus(Plus(Whole(rect.top), Quot(rect.height, 2)), Quot(popupRect.height, 2))
        under == [x |-> midX, y |-> Whole(bottom + offset), side |-> "under"]
    IN IF IsWide(docRect, rect)
       THEN IF Less(Whole(bottom), Quot(window.innerHeight, 2))
            THEN [x |-> midX, y |-> Whole(bottom + offset), side |-> "bottom"]
            ELSE [x |-> midX, y |-> Whole(rect.top - offset - popupRect.height), side |-> "top"]
       ELSE IF Less(Whole(right), Quot(docRect.width, 2))
            THEN IF docRect.width - popupRect.width < right THEN under
                 ELSE [x |-> Whole(right + offset), y |-> midY, side |-> "right"]
            ELSE IF popupRect.width > rect.left THEN under
                 ELSE [x |-> Whole(IF rect.left - offset - popupRect.width < 0 THEN 0
                                   ELSE rect.left - offset - popupRect.width),
                       y |-> midY, side |-> "left"]

\* getPopupPos() without the two Math.abs
getPopupPosSigned(docRect, rect, popupRect, window) ==
    PlacedAt(docRect, rect, popupRect, window)

\* getPopupPos()
getPopupPos(docRect, rect, popupRect, window) ==
    LET pos == PlacedAt(docRect, rect, popupRect, window)
    IN [pos EXCEPT !.x = Abs(pos.x), !.y = Abs(pos.y)]

(***************************************************************************)
(* Tour.js: the methods, as functions from the state before to the state   *)
(* after.                                                                  *)
(***************************************************************************)
\* document.getElementById(id): the element, or null
getElementById(id) == IF id \in Elements THEN id ELSE Null

\* setOptions(o) that leaves an option alone when o has no such member
setOptionsMerging(W, t, o) ==
    [W EXCEPT !.options[t] =
        [k \in DOMAIN @ |-> IF k \in DOMAIN o THEN o[k] ELSE @[k]]]

\* setOptions(o)
setOptions(W, t, o) == [W EXCEPT !.options[t] = OptionsOf(o)]

\* setTextVariables(variables)
setTextVariables(W, t, variables) == [W EXCEPT !.textVariables[t] = variables]

\* the content of a popup element nothing was written into; no step has
\* index -1
EmptyHtml == [index |-> 0 - 1, text |-> <<>>, prev |-> Null, next |-> Null]

\* createPopup(): a new, empty popup element is appended to the document
createPopup(W, t) ==
    [W EXCEPT !.popupElement[t] = "attached",
              !.popupHtml[t] = EmptyHtml,
              !.popupPos[t] = "unset"]

\* updatePopup(): the text with its placeholders replaced and the buttons of
\* the current step; the assignment to popup.innerHTML fails on a null popup
updatePopup(W, t) ==
    IF W.popupElement[t] = Null THEN Throw(W, "TypeError")
    ELSE [W EXCEPT !.popupHtml[t] =
            [ index |-> W.step[t],
              text |-> FormatText(StepAt(W, t).text, W.textVariables[t]),
              prev |-> IF W.step[t] # 0 THEN Labels(W.options[t].language).prev ELSE Null,
              next |-> IF isLastStep(W, t) THEN Labels(W.options[t].language).end
                       ELSE Labels(W.options[t].language).next ]]

\* movePopup(coordinates)
movePopup(W, t, coordinates) == [W EXCEPT !.popupPos[t] = coordinates]

\* toggleScroll(canScroll): window.onscroll becomes a scroll lock or a no-op
toggleScroll(W, t, canScroll) ==
    [W EXCEPT !.onscroll = IF canScroll THEN "noop" ELSE t]

\* setWindowResizeEvent(shouldResize): a new closure with a timeout handle of
\* its own, or a no-op; the timeout of the closure before stays pending
setWindowResizeEvent(W, t, shouldResize) ==
    IF shouldResize
    THEN [W EXCEPT !.onresize = t,
                   !.staleTimers[t] = IF W.winTimer[t] THEN @ + 1 ELSE @,
                   !.winTimer[t] = FALSE]
    ELSE [W EXCEPT !.onresize = "noop"]

\* toggleResizeObserver(shouldResize): observe(null) is a TypeError
toggleResizeObserver(W, t, shouldResize) ==
    IF shouldResize
    THEN IF W.currentElement[t] = Null THEN Throw(W, "TypeError")
         ELSE [W EXCEPT !.observed[t] = @ \cup {W.currentElement[t]}]
    ELSE [W EXCEPT !.observed[t] = @ \ {W.currentElement[t]}]

\* makeStep() that moves on to the step after the current one
makeStepAdvancing(W, t) ==
    LET W0 == [W EXCEPT !.made = @ + 1, !.step[t] = @ + 1]
    IN IF ~HasStep(W0, t) THEN Throw(W0, "TypeError")
       ELSE Then(updatePopup(W0, t), LAMBDA V : movePopup(V, t, "center"))

\* makeStep()
makeStep(W, t) ==
    LET W0 == [W EXCEPT !.made = @ + 1]
    IN IF ~HasStep(W0, t) THEN Throw(W0, "TypeError")
       ELSE
        LET elementId == StepAt(W0, t).id
            W1 == updatePopup(W0, t)
            W2 == Then(W1, LAMBDA V :
                    IF elementId # NoId
                    THEN LET V1 == [V EXCEPT !.currentElement[t] = getElementById(elementId)]
                             V2 == toggleResizeObserver(V1, t, TRUE)
                         IN Then(V2, LAMBDA U : movePopup(U, t, U.currentElement[t]))
                    ELSE movePopup([V EXCEPT !.currentElement[t] = Null], t, "center"))
            W3 == Then(W2, LAMBDA V :
                    IF V.options[t].spotlight
                    THEN IF V.currentElement[t] # Null
                         THEN SpotlightMove(V, t, V.currentElement[t])
                         ELSE SpotlightBlackout(V, t)
                    ELSE V)
        IN Then(W3, LAMBDA V :
                    IF V.options[t].disableScroll THEN toggleScroll(V, t, FALSE) ELSE V)

\* endTour()
endTour(W, t) ==
    LET W0 == [W EXCEPT !.currentState[t] = 2,
                        !.ended = @ + 1]
        W1 == IF W0.popupElement[t] = Null THEN Throw(W0, "TypeError")
              ELSE [W0 EXCEPT !.popupElement[t] = "detached"]
        W2 == Then(W1, LAMBDA V : setWindowResizeEvent(V, t, FALSE))
        W3 == Then(W2, LAMBDA V :
                IF V.options[t].spotlight THEN SpotlightKill(V, t) ELSE V)
    IN Then(W3, LAMBDA V : toggleScroll(V, t, TRUE))

\* start() without the test of the state
startUnguarded(W, t) ==
    LET W0 == [W EXCEPT !.currentState[t] = 1, !.starts[t] = @ + 1]
        W1 == setWindowResizeEvent(W0, t, TRUE)
        W2 == createPopup(W1, t)
        W3 == IF W2.options[t].spotlight THEN SpotlightNew(W2, t) ELSE W2
    IN makeStep(W3, t)

\* start()
start(W, t) ==
    IF W.currentState[t] # 1
    THEN LET W0 == [W EXCEPT !.currentState[t] = 1, !.starts[t] = @ + 1]
             W1 == setWindowResizeEvent(W0, t, TRUE)
             W2 == createPopup(W1, t)
             W3 == IF W2.options[t].spotlight THEN SpotlightNew(W2, t) ELSE W2
         IN makeStep(W3, t)
    ELSE [W EXCEPT !.warned = TRUE]

\* previous() that keeps the index at 0
previousGuarded(W, t) ==
    LET W0 == [W EXCEPT !.step[t] = IF @ > 0 THEN @ - 1 ELSE @]
        W1 == IF W0.currentElement[t] # Null
              THEN toggleResizeObserver(W0, t, FALSE) ELSE W0
    IN makeStep(W1, t)

\* previous()
previous(W, t) ==
    LET W0 == [W EXCEPT !.step[t] = @ - 1]
        W1 == IF W0.currentElement[t] # Null
              THEN toggleResizeObserver(W0, t, FALSE) ELSE W0
    IN makeStep(W1, t)

\* next()
next(W, t) ==
    LET W0 == [W EXCEPT !.step[t] = @ + 1]
        W1 == IF W0.currentElement[t] # Null
              THEN toggleResizeObserver(W0, t, FALSE) ELSE W0
    IN IF StepInRange(W1.step[t], Len(W1.steps[t]))
       THEN makeStep(W1, t) ELSE endTour(W1, t)

(***************************************************************************)
(* Construction, save() and getSavedTour().                                *)
(***************************************************************************)
\* the keys of sessionStorage the program uses
StorageKeys == {"tour", "Tour.js"}

\* sessionStorage.getItem of a key that was never set
NoItem == [kind |-> "null"]

\* a storage entry that is not JSON
Garbage == [kind |-> "garbage"]

\* JSON.stringify(value), as the document it denotes
Stringify(value) == [kind |-> "json", value |-> value]

\* JSON.stringify of a step object: a member that is undefined is left out
JsonOfStep(s) ==
    IF s.id = NoId THEN [text |-> s.text] ELSE [id |-> s.id, text |-> s.text]

\* a step object read back from its JSON form: a member left out is undefined
StepOfJson(j) ==
    [id |-> IF "id" \in DOMAIN j THEN j.id ELSE NoId, text |-> j.text]

\* the entry save() builds: state and index as decimal strings; this.styles is
\* undefined and JSON.stringify leaves it out
SavedEntry(cs, sts, st, opts, tv) ==
    [ currentState |-> toString(cs),
      steps |-> [i \in DOMAIN sts |-> JsonOfStep(sts[i])],
      step |-> toString(st),
      options |-> opts,
      textVariables |-> tv ]

\* new Tour(varName, steps, step)
Construct(W, t, sts, st) ==
    [W EXCEPT !.tours = @ \cup {t},
              !.steps[t] = sts,
              !.step[t] = st,
              !.currentState[t] = 0,
              !.currentElement[t] = Null,
              !.popupElement[t] = Null,
              !.spotlight[t] = Null,
              !.textVariables[t] = <<>>,
              !.options[t] = OptionsOf([k \in {} |-> TRUE]),
              !.observed[t] = {},
              !.elemTimer[t] = FALSE]

\* save()
save(W, t) ==
    [W EXCEPT !.storage["Tour.js"] =
        Stringify(SavedEntry(W.currentState[t], W.steps[t], W.step[t], W.options[t],
                             W.textVariables[t]))]

\* JSON.parse that returns null for text that is not JSON
JsonParseLenient(item) == "none"

\* the exception JSON.parse(item) raises: a SyntaxError for text that is not
\* JSON, none for JSON text and for null
JsonParse(item) == IF item.kind = "garbage" THEN "SyntaxError" ELSE "none"

\* getSavedTour(varName): an entry that is not JSON is a SyntaxError of
\* JSON.parse; JSON.parse(null) is null and reading its steps is a TypeError;
\* the entry has no spotlight member, so the new tour's spotlight becomes
\* undefined
getSavedTour(W, t) ==
    LET item == W.storage["tour"]
    IN IF JsonParse(item) # "none" THEN Throw(W, JsonParse(item))
       ELSE IF item.kind # "json" THEN Throw(W, "TypeError")
       ELSE LET tour == item.value
                sts == [i \in DOMAIN tour.steps |-> StepOfJson(tour.steps[i])]
                W0 == [Construct(W, t, sts, ParseInt(tour.step))
                         EXCEPT !.spotlight[t] = Null]
                W1 == setTextVariables(W0, t, tour.textVariables)
                W2 == setOptions(W1, t, tour.options)
            IN [W2 EXCEPT !.returned = t]

(***************************************************************************)
(* Initial states.                                                         *)
(***************************************************************************)
\* a page on which no Tour has been constructed and nothing is stored
Blank ==
    [ tours |-> {},
      steps |-> [t \in Tours |-> <<>>],
      step |-> [t \in Tours |-> 0],
      currentState |-> [t \in Tours |-> 0],
      currentElement |-> [t \in Tours |-> Null],
      popupElement |-> [t \in Tours |-> Null],
      popupHtml |-> [t \in Tours |-> EmptyHtml],
      popupPos |-> [t \in Tours |-> "unset"],
      spotlight |-> [t \in Tours |-> Null],
      spotlightAt |-> [t \in Tours |-> "initial"],
      strayPanels |-> [t \in Tours |-> 0],
      options |-> [t \in Tours |-> OptionsOf([k \in {} |-> TRUE])],
      textVariables |-> [t \in Tours |-> <<>>],
      observed |-> [t \in Tours |-> {}],
      elemTimer |-> [t \in Tours |-> FALSE],
      winTimer |-> [t \in Tours |-> FALSE],
      staleTimers |-> [t \in Tours |-> 0],
      onresize |-> "unset",
      onscroll |-> "unset",
      storage |-> [k \in StorageKeys |-> NoItem],
      starts |-> [t \in Tours |-> 0],
      threw |-> "none", made |-> 0, ended |-> 0, warned |-> FALSE, returned |-> Null ]

\* no Spotlight is used on its own
NoSpot ==
    [ viewport |-> [width |-> 1, height |-> 1], padding |-> 0, spotlight |-> <<>>,
      attached |-> FALSE, reported |-> FALSE, threw |-> "none",
      target |-> ZeroRect, log |-> <<"none", "none">> ]

\* getCenterPos() is not being followed
NoLayout ==
    [ window |-> [innerWidth |-> 1, innerHeight |-> 1],
      popupRect |-> [width |-> 0, height |-> 0],
      pos |-> getCenterPos([innerWidth |-> 1, innerHeight |-> 1], [width |-> 0, height |-> 0]),
      calls |-> 0 - 1 ]

\* no start() at index 0 is being followed
NoRun == [calls |-> 0 - 1, ends |-> 0]

\* the variables hold the state W, and no handler has run
StartsAs(W) ==
    /\ tours = W.tours
    /\ steps = W.steps
    /\ step = W.step
    /\ currentState = W.currentState
    /\ currentElement = W.currentElement
    /\ popupElement = W.popupElement
    /\ popupHtml = W.popupHtml
    /\ popupPos = W.popupPos
    /\ spotlight = W.spotlight
    /\ spotlightAt = W.spotlightAt
    /\ strayPanels = W.strayPanels
    /\ options = W.options
    /\ textVariables = W.textVariables
    /\ observed = W.observed
    /\ elemTimer = W.elemTimer
    /\ winTimer = W.winTimer
    /\ staleTimers = W.staleTimers
    /\ onresize = W.onresize
    /\ onscroll = W.onscroll
    /\ storage = W.storage
    /\ starts = W.starts
    /\ run = [t \in Tours |-> NoRun]
    /\ roundTrip = [phase |-> "none", by |-> Null, threw |-> "none"]

\* the running handler ends in state W
Becomes(W) ==
    /\ tours' = W.tours
    /\ steps' = W.steps
    /\ step' = W.step
    /\ currentState' = W.currentState
    /\ currentElement' = W.currentElement
    /\ popupElement' = W.popupElement
    /\ popupHtml' = W.popupHtml
    /\ popupPos' = W.popupPos
    /\ spotlight' = W.spotlight
    /\ spotlightAt' = W.spotlightAt
    /\ strayPanels' = W.strayPanels
    /\ options' = W.options
    /\ textVariables' = W.textVariables
    /\ observed' = W.observed
    /\ elemTimer' = W.elemTimer
    /\ winTimer' = W.winTimer
    /\ staleTimers' = W.staleTimers
    /\ onresize' = W.onresize
    /\ onscroll' = W.onscroll
    /\ storage' = W.storage
    /\ starts' = W.starts
    /\ UNCHANGED << spot, layout >>

\* the page has constructed one tour, at index 0, and nothing is stored
Init ==
    /\ \E sts \in StepLists : StartsAs(Construct(Blank, "page", sts, 0))
    /\ spot = NoSpot
    /\ layout = NoLayout

(***************************************************************************)
(* The handlers.                                                           *)
(***************************************************************************)
\* no save() is being followed by a getSavedTour()
NoRoundTrip == [phase |-> "none", by |-> Null, threw |-> "none"]

\* tour.start()
Start(t) ==
    /\ currentState[t] = 1 \/ starts[t] < MaxStarts
    /\ Becomes(start(Cur, t))
    /\ run' = [run EXCEPT ![t] =
                IF currentState[t] = 1 THEN @
                ELSE IF step[t] = 0 THEN [calls |-> 0, ends |-> 0] ELSE NoRun]
    /\ roundTrip' = NoRoundTrip

\* tour.previous(), from the popup's button or from the page
Previous(t) ==
    /\ step[t] > 0 - MaxBelow
    /\ Becomes(previous(Cur, t))
    /\ run' = [run EXCEPT ![t] = NoRun]
    /\ roundTrip' = NoRoundTrip

\* tour.next(), from the popup's button or from the page
Next_(t) ==
    /\ step[t] < Len(steps[t]) + MaxAbove
    /\ LET W == next(Cur, t)
       IN /\ Becomes(W)
          /\ run' = [run EXCEPT ![t] =
                      IF @.calls >= 0 /\ @.calls < Len(steps[t])
                      THEN [calls |-> @.calls + 1, ends |-> @.ends + W.ended]
                      ELSE NoRun]
    /\ roundTrip' = NoRoundTrip

\* tour.setOptions(o)
SetOptions(t) ==
    /\ \E o \in OptionInputs : Becomes(setOptions(Cur, t, o))
    /\ UNCHANGED run
    /\ roundTrip' = NoRoundTrip

\* tour.options.disableScroll = v or tour.options.spotlight = v, written by
\* the page
WriteOption(t) ==
    /\ \E k \in {"disableScroll", "spotlight"}, v \in BOOLEAN :
          Becomes([Cur EXCEPT !.options[t][k] = v])
    /\ UNCHANGED run
    /\ roundTrip' = NoRoundTrip

\* tour.setTextVariables(variables)
SetTextVariables(t) ==
    /\ \E v \in TextVariableInputs : Becomes(setTextVariables(Cur, t, v))
    /\ UNCHANGED run
    /\ roundTrip' = NoRoundTrip

\* tour.save()
Save(t) ==
    /\ Becomes(save(Cur, t))
    /\ UNCHANGED run
    /\ roundTrip' = [phase |-> "saved", by |-> t, threw |-> "none"]

\* Tour.getSavedTour(varName), once per page
GetSavedTour ==
    /\ "loaded" \notin tours
    /\ LET W == getSavedTour(Cur, "loaded")
       IN /\ Becomes(W)
          /\ roundTrip' = IF roundTrip.phase = "saved"
                          THEN [phase |-> "loaded", by |-> roundTrip.by, threw |-> W.threw]
                          ELSE IF W.threw # "none"
                          THEN [phase |-> "failed", by |-> Null, threw |-> W.threw]
                          ELSE NoRoundTrip
    /\ UNCHANGED run

\* a resize event of the window: the installed window.onresize runs; the
\* tour's closure clears its timeout and sets it again
WindowResize ==
    /\ onresize # "unset"
    /\ Becomes(IF onresize \in Tours
               THEN [Cur EXCEPT !.winTimer[onresize] = TRUE] ELSE Cur)
    /\ UNCHANGED run
    /\ roundTrip' = NoRoundTrip

\* the resize observer reports an observed element: its callback clears its
\* timeout and sets it again
ElementResize(t) ==
    /\ observed[t] # {}
    /\ Becomes([Cur EXCEPT !.elemTimer[t] = TRUE])
    /\ UNCHANGED run
    /\ roundTrip' = NoRoundTrip

\* the timeouts that follow: each calls makeStep(); what a specification
\* observes of the call, NoRoundTrip or Rerendered(t), is stated where the
\* specification takes the step

\* a timeout of tour t has just called makeStep()
Rerendered(t) == [phase |-> "rerender", by |-> t, threw |-> "none"]

\* the 100 ms timeout of the tour's latest window.onresize closure expires
WindowTimer(t) ==
    /\ winTimer[t]
    /\ Becomes(makeStep([Cur EXCEPT !.winTimer[t] = FALSE], t))
    /\ UNCHANGED run

\* the 100 ms timeout of a replaced window.onresize closure expires
StaleTimer(t) ==
    /\ staleTimers[t] > 0
    /\ Becomes(makeStep([Cur EXCEPT !.staleTimers[t] = @ - 1], t))
    /\ UNCHANGED run

\* the 20 ms timeout of the resize observer's callback expires
ElementTimer(t) ==
    /\ elemTimer[t]
    /\ Becomes(makeStep([Cur EXCEPT !.elemTimer[t] = FALSE], t))
    /\ UNCHANGED run

(***************************************************************************)
(* Spec: one tour of a page, its navigation, its options, the resize       *)
(* events and the timers.                                                  *)
(***************************************************************************)
Next ==
    \/ WindowResize
    \/ \E t \in tours :
        \/ Start(t)
        \/ Previous(t)
        \/ Next_(t)
        \/ SetOptions(t)
        \/ WriteOption(t)
        \/ ElementResize(t)
        \/ WindowTimer(t) /\ roundTrip' = NoRoundTrip
        \/ StaleTimer(t) /\ roundTrip' = NoRoundTrip
        \/ ElementTimer(t) /\ roundTrip' = NoRoundTrip

Spec == Init /\ [][Next]_vars

(***************************************************************************)
(* SpecStore: save() and getSavedTour() with the navigation of the tour    *)
(* that is saved or loaded.  The page either has constructed its tour and  *)
(* stores nothing, or is a page opened later, on which no tour exists and  *)
(* the session storage holds an entry under the key getSavedTour() reads.  *)
(***************************************************************************)
\* the entries a page finds under the key "tour": what save() builds for a
\* started tour at one of its steps (the key is the one the one-class
\* example writes, src/src/examples/tour-one-class.js line 117), or text that
\* is not JSON
PageEntries ==
    { Stringify(SavedEntry(1, sts, k, OptionsOf(o), tv)) :
        sts \in StepLists, k \in 0..(MaxSteps - 1), o \in OptionInputs,
        tv \in TextVariableInputs }
    \cup {Garbage}

InitStore ==
    \/ Init
    \/ \E e \in PageEntries :
          /\ e.kind = "json" => ParseInt(e.value.step) < Len(e.value.steps)
          /\ StartsAs([Blank EXCEPT !.storage["tour"] = e])
          /\ spot = NoSpot
          /\ layout = NoLayout

\* save() is the last call a page makes on its tour before the page is left
PageOpen == roundTrip.phase \in {"none", "failed"}

NextStore ==
    \/ GetSavedTour
    \/ \E t \in tours :
        /\ PageOpen
        /\ \/ Save(t)
           \/ SetTextVariables(t)
           \/ SetOptions(t)
           \/ Start(t)
           \/ Next_(t)

SpecStore == InitStore /\ [][NextStore]_vars

(***************************************************************************)
(* SpecLoad: getSavedTour() on a page that has constructed its tour while  *)
(* the entry under the key getSavedTour() reads is not JSON.               *)
(***************************************************************************)
InitLoad ==
    /\ \E sts \in StepLists :
          StartsAs([Construct(Blank, "page", sts, 0) EXCEPT !.storage["tour"] = Garbage])
    /\ spot = NoSpot
    /\ layout = NoLayout

NextLoad ==
    \/ GetSavedTour
    \/ \E t \in tours :
        \/ Save(t)
        \/ Start(t)
        \/ Next_(t)

SpecLoad == InitLoad /\ [][NextLoad]_vars

(***************************************************************************)
(* SpecLabels: a tour whose language option the page sets before it starts *)
(* it, then navigated with start(), next() and previous().                 *)
(***************************************************************************)
\* values of the language option: the two documented ones, another string and
\* the empty string
Languages == {"en", "fr", "de", ""}

InitLabels ==
    /\ \E sts \in StepLists, l \in Languages :
          StartsAs(setOptions(Construct(Blank, "page", sts, 0), "page", [language |-> l]))
    /\ spot = NoSpot
    /\ layout = NoLayout

NextLabels ==
    \E t \in tours :
        \/ Start(t)
        \/ Next_(t)
        \/ Previous(t)

SpecLabels == InitLabels /\ [][NextLabels]_vars

(***************************************************************************)
(* SpecOptions: the options of a tour, set by setOptions() with any        *)
(* members and written one by one by the page.                             *)
(***************************************************************************)
\* the names of the options
OptionNames == {"disableScroll", "spotlight", "language", "scrollMargin"}

\* the values the page gives an option: the default and another one
OptionValues(k) ==
    IF k = "language" THEN {"en", "fr"}
    ELSE IF k = "scrollMargin" THEN {50, 0}
    ELSE BOOLEAN

\* the objects passed to setOptions(): any of the four members, each with
\* one of its values
OptionObjects ==
    UNION { { [k \in K |-> IF k \in D THEN CHOOSE v \in OptionValues(k) : v # OptionsOf(<<>>)[k]
                          ELSE OptionsOf(<<>>)[k]] : D \in SUBSET K } :
            K \in SUBSET OptionNames }

\* tour.setOptions(o) with any object o
SetAnyOptions(t) ==
    /\ \E o \in OptionObjects : Becomes(setOptions(Cur, t, o))
    /\ UNCHANGED run
    /\ roundTrip' = NoRoundTrip

\* tour.options.k = v, written by the page
WriteAnyOption(t) ==
    /\ \E k \in OptionNames : \E v \in OptionValues(k) :
          Becomes([Cur EXCEPT !.options[t][k] = v])
    /\ UNCHANGED run
    /\ roundTrip' = NoRoundTrip

NextOptions ==
    \E t \in tours :
        \/ SetAnyOptions(t)
        \/ WriteAnyOption(t)

SpecOptions == Init /\ [][NextOptions]_vars

(***************************************************************************)
(* SpecSpotlight: a Spotlight constructed in a viewport, then moved to     *)
(* elements of the viewport, blacked out and killed in any order.          *)
(***************************************************************************)
InitSpotlight ==
    /\ StartsAs(Blank)
    /\ layout = NoLayout
    /\ \E vp \in Viewports, p \in 0..MaxPadding :
          spot = [newSpotlight(vp, p) EXCEPT !.log = <<"new", "create">>]

\* the call named op, on the element of bounding rectangle r, has ended in
\* state S
Called(S, op, r) == [S EXCEPT !.log = <<spot.log[2], op>>, !.target = r]

\* spotlight.move(element)
Move ==
    /\ \E r \in RectsIn(spot.viewport) :
          spot' = Called(move(spot, r), "move", r)
    /\ UNCHANGED << tourVars, layout >>

\* spotlight.blackout()
Blackout ==
    /\ spot' = Called(blackout(spot), "blackout", ZeroRect)
    /\ UNCHANGED << tourVars, layout >>

\* spotlight.kill()
Kill ==
    /\ spot' = Called(kill(spot), "kill", ZeroRect)
    /\ UNCHANGED << tourVars, layout >>

NextSpotlight == Move \/ Blackout \/ Kill

SpecSpotlight == InitSpotlight /\ [][NextSpotlight]_vars

(***************************************************************************)
(* SpecLayout: getCenterPos() for a popup and a window of given sizes,     *)
(* each of which may change between two calls.                             *)
(***************************************************************************)
\* the sizes of a window and of a popup
Windows == [innerWidth : 1..MaxSide, innerHeight : 1..MaxSide]

PopupRects == [width : 0..MaxSide, height : 0..MaxSide]

InitLayout ==
    /\ StartsAs(Blank)
    /\ spot = NoSpot
    /\ \E w \in Windows, r \in PopupRects :
          layout = [window |-> w, popupRect |-> r, pos |-> NoLayout.pos, calls |-> 0]

\* this.getCenterPos()
GetCenterPos ==
    /\ layout' = [layout EXCEPT !.pos = getCenterPos(layout.window, layout.popupRect),
                                !.calls = 1]
    /\ UNCHANGED << tourVars, spot >>

\* the window or the popup takes another size; the position returned for
\* the size before is dropped
Resize ==
    /\ \E w \in Windows, r \in PopupRects :
          /\ w # layout.window \/ r # layout.popupRect
          /\ layout' = [window |-> w, popupRect |-> r, pos |-> NoLayout.pos, calls |-> 0]
    /\ UNCHANGED << tourVars, spot >>

NextLayout == GetCenterPos \/ Resize

SpecLayout == InitLayout /\ [][NextLayout]_vars

(***************************************************************************)
(* SpecPopupPos: getPopupPos() for a document, a target element, a popup   *)
(* and a window of given sizes.                                            *)
(***************************************************************************)
\* the grid, in pixels, the sizes and positions are taken from
Unit == 5

\* the lengths from lo to hi units
Lengths(lo, hi) == { Unit * k : k \in lo..hi }

\* document.body.getBoundingClientRect()
DocRects == [width : Lengths(1, MaxSide)]

\* this.currentElement.getBoundingClientRect() of an element inside the
\* width of the document
TargetRects(docRect) ==
    { r \in [left : Lengths(0, MaxSide), top : Lengths(0, MaxSide),
             width : Lengths(0, MaxSide), height : Lengths(0, MaxSide)] :
        r.left + r.width <= docRect.width }

InitPopupPos ==
    /\ StartsAs(Blank)
    /\ spot = NoSpot
    /\ \E d \in DocRects, p \in [width : Lengths(0, MaxSide), height : Lengths(0, MaxSide)],
          w \in [innerHeight : Lengths(1, MaxSide)] :
          \E r \in TargetRects(d) :
              layout = [docRect |-> d, rect |-> r, popupRect |-> p, window |-> w,
                        raw |-> PlacedAt(d, r, p, w), pos |-> PlacedAt(d, r, p, w),
                        calls |-> 0]

\* this.getPopupPos()
GetPopupPos ==
    /\ layout.calls = 0
    /\ layout' = [layout EXCEPT
                    !.pos = getPopupPos(layout.docRect, layout.rect, layout.popupRect,
                                        layout.window),
                    !.calls = 1]
    /\ UNCHANGED << tourVars, spot >>

NextPopupPos == GetPopupPos

SpecPopupPos == InitPopupPos /\ [][NextPopupPos]_vars

(***************************************************************************)
(* SpecRerender: one tour of a page, navigated while the window and the    *)
(* target are resized and the page gives the text variables; a timeout     *)
(* that runs is recorded.                                                  *)
(***************************************************************************)
NextRerender ==
    \/ WindowResize
    \/ \E t \in tours :
        \/ Start(t)
        \/ Previous(t)
        \/ Next_(t)
        \/ SetTextVariables(t)
        \/ ElementResize(t)
        \/ WindowTimer(t) /\ roundTrip' = Rerendered(t)
        \/ StaleTimer(t) /\ roundTrip' = Rerendered(t)
        \/ ElementTimer(t) /\ roundTrip' = Rerendered(t)

SpecRerender == Init /\ [][NextRerender]_vars

(***************************************************************************)
(* SpecTwoTours: a page that has constructed its tour and loads a second   *)
(* one with getSavedTour(); both are started and gone through while the    *)
(* window is resized.                                                      *)
(***************************************************************************)
\* the page's tour is constructed, and the session storage holds, under the
\* key getSavedTour() reads, a tour saved at its first step with the default
\* options
InitTwoTours ==
    /\ \E sts \in StepLists, e \in PageEntries :
          /\ e.kind = "json"
          /\ e.value.step = toString(0)
          /\ e.value.options = OptionsOf([k \in {} |-> TRUE])
          /\ StartsAs([Construct(Blank, "page", sts, 0) EXCEPT !.storage["tour"] = e])
    /\ spot = NoSpot
    /\ layout = NoLayout

NextTwoTours ==
    \/ GetSavedTour
    \/ WindowResize
    \/ \E t \in tours :
        \/ Start(t)
        \/ Next_(t)
        \/ WindowTimer(t) /\ roundTrip' = NoRoundTrip
        \/ StaleTimer(t) /\ roundTrip' = NoRoundTrip

SpecTwoTours == InitTwoTours /\ [][NextTwoTours]_vars

(***************************************************************************)
(* SpecText: a tour whose texts hold the placeholders of two variables,    *)
(* the name of one beginning with the name of the other; the page gives    *)
(* the variables before it starts the tour.                                *)
(***************************************************************************)
\* the step objects of such a page: each text holds a placeholder at most
\* once
TextSteps ==
    << [id |-> "a", text |-> PLACEHOLDER \o <<"n", "m">>],
       [id |-> "b", text |-> PLACEHOLDER \o <<"n", " ">> \o PLACEHOLDER \o <<"n", "m">>],
       [id |-> NoId, text |-> PLACEHOLDER \o <<"n", "m", " ">> \o PLACEHOLDER \o <<"n">>] >>

\* the runs of up to MaxSteps consecutive steps of that page
TextStepLists ==
    { SubSeq(TextSteps, w[1], w[2]) :
        w \in { v \in (1..Len(TextSteps)) \X (1..Len(TextSteps)) :
                  v[1] <= v[2] /\ v[2] - v[1] < MaxSteps } }

\* the objects passed to setTextVariables(): the two variables, in either
\* order of their members
PrefixVariableInputs ==
    { << [name |-> <<"n">>, value |-> <<"S", "a", "m">>],
         [name |-> <<"n", "m">>, value |-> <<"L", "e", "e">>] >>,
      << [name |-> <<"n", "m">>, value |-> <<"L", "e", "e">>],
         [name |-> <<"n">>, value |-> <<"S", "a", "m">>] >> }

InitText ==
    /\ \E sts \in TextStepLists, v \in PrefixVariableInputs :
          StartsAs(setTextVariables(Construct(Blank, "page", sts, 0), "page", v))
    /\ spot = NoSpot
    /\ layout = NoLayout

NextText ==
    \E t \in tours :
        \/ Start(t)
        \/ Previous(t)
        \/ Next_(t)

SpecText == InitText /\ [][NextText]_vars

(***************************************************************************)
(* What the document and the timers hold.                                  *)
(***************************************************************************)
\* the spotlight panels of tour t that are in the document
PanelsInDocument(t) ==
    (IF spotlight[t] = "attached" THEN 4 ELSE 0) + strayPanels[t]

\* the pending timeouts of tour t that were set by window.onresize closures
PendingWindowTimers(t) == (IF winTimer[t] THEN 1 ELSE 0) + staleTimers[t]

\* the pending timeouts of tour t that were set by its resize observer
PendingElementTimers(t) == IF elemTimer[t] THEN 1 ELSE 0

\* the effects of endTour() are in place for tour t
TornDown(t) ==
    /\ popupElement[t] # "attached"
    /\ onresize # t
    /\ PanelsInDocument(t) = 0
    /\ onscroll \notin Tours

(***************************************************************************)
(* Claims.                                                                 *)
(***************************************************************************)

\* C1: a tour of N >= 1 steps started at index 0 and then only advanced by
\* next(): after each of the first N-1 calls it is still Started, its index
\* is the number of calls made and endTour() has not run; after the Nth call
\* it is Finished and endTour() has run exactly once.
C1_NextNTimesFinishesOnce ==
    \A t \in tours :
        run[t].calls >= 0 =>
            /\ run[t].calls < Len(steps[t]) =>
                  /\ currentState[t] = 1
                  /\ step[t] = run[t].calls
                  /\ run[t].ends = 0
            /\ run[t].calls = Len(steps[t]) =>
                  /\ currentState[t] = 2
                  /\ run[t].ends = 1

\* C1 witness: a tour of at least two steps was started at index 0, next()
\* was called once per step, and the tour is Finished.
C1_Witness ==
    \E t \in tours :
        /\ Len(steps[t]) >= 2
        /\ run[t].calls = Len(steps[t])
        /\ currentState[t] = 2

\* C2: the state of a tour changes only from Configuring to Started, by
\* start(), and from Started to Finished, by next().
C2_OnlyTwoTransitions ==
    [][\A t \in tours :
          currentState'[t] # currentState[t] =>
              \/ currentState[t] = 0 /\ currentState'[t] = 1 /\ Start(t)
              \/ currentState[t] = 1 /\ currentState'[t] = 2 /\ Next_(t)]_vars

\* C3: start() on a tour that is Started or Finished changes nothing of the
\* tour, the document, the handlers and the timers, and renders no step.
C3_StartAgainIsNoOp ==
    [][\A t \in tours :
          (Start(t) /\ currentState[t] \in {1, 2}) =>
              /\ start(Cur, t).made = 0
              /\ UNCHANGED << currentState, step, currentElement, popupElement,
                              popupHtml, popupPos, spotlight, spotlightAt,
                              strayPanels, observed, elemTimer, winTimer,
                              staleTimers, onresize, onscroll >>]_vars

\* C4: when a Started tour becomes Finished, its popup is out of the
\* document, window.onresize is no longer its closure, none of its spotlight
\* panels is in the document and window.onscroll is no scroll lock.
C4_FinishedIsTornDown ==
    [][\A t \in tours :
          (currentState[t] = 1 /\ currentState'[t] = 2) => TornDown(t)']_vars

\* C5: next() on a tour that is Finished does not run endTour() again.
C5_EndTourRunsOnce ==
    [][\A t \in tours :
          (Next_(t) /\ currentState[t] = 2) => next(Cur, t).ended = 0]_vars

\* C6: spotlight panels of a tour are in the document only while the tour is
\* Started, and then there are four; once it is Finished there are none.
C6_PanelsOnlyWhileStarted ==
    \A t \in tours :
        /\ PanelsInDocument(t) > 0 => currentState[t] = 1 /\ PanelsInDocument(t) = 4
        /\ currentState[t] = 2 => PanelsInDocument(t) = 0

\* C7: no timeout of a debounced re-render expires, and calls makeStep(),
\* once the tour is Finished.
C7_NoRenderAfterFinished ==
    [][\A t \in tours :
          currentState[t] = 2 =>
              ~(WindowTimer(t) \/ StaleTimer(t) \/ ElementTimer(t))]_vars

\* C8: at any time at most one window-resize timeout and at most one
\* element-resize timeout of a tour is pending.
C8_OnePendingInvocation ==
    \A t \in tours :
        /\ PendingWindowTimers(t) <= 1
        /\ PendingElementTimers(t) <= 1

\* C9: getSavedTour() called right after save() returns a tour with the
\* saved step list, options, text variables and step index.
C9_SaveLoadRoundTrip ==
    roundTrip.phase = "loaded" =>
        /\ roundTrip.threw = "none"
        /\ "loaded" \in tours
        /\ steps["loaded"] = steps[roundTrip.by]
        /\ options["loaded"] = options[roundTrip.by]
        /\ textVariables["loaded"] = textVariables[roundTrip.by]
        /\ step["loaded"] = step[roundTrip.by]

\* C10: next() on a tour returned by getSavedTour() for an entry saved at
\* step k, with no start() before it and k+1 a step of the list, leaves step
\* k+1 rendered in a popup that is in the document.
C10_NextResumesLoadedTour ==
    [][( /\ "loaded" \in tours
         /\ Next_("loaded")
         /\ starts["loaded"] = 0
         /\ step["loaded"] = ParseInt(storage["tour"].value.step)
         /\ step["loaded"] + 1 < Len(steps["loaded"]) ) =>
            /\ step'["loaded"] = step["loaded"] + 1
            /\ popupElement'["loaded"] = "attached"
            /\ popupHtml'["loaded"].index = step'["loaded"]]_vars

\* C11: getSavedTour() on a storage entry that is not JSON fails with the
\* SyntaxError of JSON.parse, which reaches the caller: no tour is returned or
\* constructed, and no tour, handler, timer or storage entry is changed.
C11_UnparsableEntryPropagates ==
    [][(GetSavedTour /\ storage["tour"].kind = "garbage") =>
          /\ getSavedTour(Cur, "loaded").threw = "SyntaxError"
          /\ getSavedTour(Cur, "loaded").returned = Null
          /\ roundTrip'.threw = "SyntaxError"
          /\ UNCHANGED << tours, steps, step, currentState, currentElement,
                          popupElement, popupHtml, popupPos, spotlight, spotlightAt,
                          strayPanels, options, textVariables, observed, elemTimer,
                          winTimer, staleTimers, onresize, onscroll, storage >>]_vars

\* C11 witness: getSavedTour() has failed on an entry that is not JSON while
\* the page holds a started tour.
C11_Witness ==
    /\ roundTrip.phase = "failed"
    /\ roundTrip.threw = "SyntaxError"
    /\ storage["tour"].kind = "garbage"
    /\ "page" \in tours
    /\ currentState["page"] = 1

\* C12: after move(element) on a Spotlight whose panels are in the document,
\* for every element rectangle inside the viewport and every padding >= 0:
\* each cell of the viewport outside the rectangle expanded by the padding is
\* masked by exactly one panel and each cell inside it by none, no two panels
\* overlap anywhere, the right and left panels span exactly the padded height
\* of the rectangle, and the top and bottom panels span the full width.
C12_MoveLeavesPaddedTarget ==
    (spot.log[2] = "move" /\ spot.attached) =>
        LET P == Padded(spot.target, spot.padding)
        IN /\ \A c \in Cells(spot) :
                 Cardinality(Masking(spot, c[1], c[2])) =
                     IF Covers(P, c[1], c[2]) THEN 0 ELSE 1
           /\ \A i, j \in 1..4 :
                 i # j => ~Overlap(spot.spotlight[i], spot.spotlight[j])
           /\ \A i \in {2, 4} :
                 /\ spot.spotlight[i].top = P.top
                 /\ spot.spotlight[i].height = P.height
           /\ \A i \in {1, 3} :
                 /\ spot.spotlight[i].left = 0
                 /\ spot.spotlight[i].width = spot.viewport.width

\* C12 witness: a Spotlight with a padding of at least one pixel was blacked
\* out and then moved to an element that has an area and touches no edge of
\* the viewport.
C12_Witness ==
    /\ spot.log = <<"blackout", "move">>
    /\ spot.attached
    /\ spot.padding >= 1
    /\ spot.target.width >= 1 /\ spot.target.height >= 1
    /\ spot.target.left >= 1 /\ spot.target.top >= 1
    /\ spot.target.left + spot.target.width < spot.viewport.width
    /\ spot.target.top + spot.target.height < spot.viewport.height

\* C13 as stated: after blackout(), no cell of the viewport is masked by a
\* panel.
C13_BlackoutMasksNothing ==
    (spot.log[2] = "blackout" /\ spot.attached) =>
        \A c \in Cells(spot) : Masking(spot, c[1], c[2]) = {}

\* C13, amended: after blackout(), the top panel masks every cell of the
\* viewport and the right, bottom and left panels mask none.
C13_BlackoutFillsViewport ==
    (spot.log[2] = "blackout" /\ spot.attached) =>
        \A c \in Cells(spot) : Masking(spot, c[1], c[2]) = {1}

\* C13 witness: a Spotlight was moved to an element and then blacked out.
C13_Witness ==
    /\ spot.log = <<"move", "blackout">>
    /\ spot.attached
    /\ spot.padding >= 1
    /\ spot.spotlight[2].height < spot.viewport.height

\* C14: move(element) on a Spotlight that has no panel in the document
\* reports an error, raises no exception and changes the geometry of no
\* panel.
C14_MoveWithoutPanelsIsReported ==
    [][(Move /\ ~spot.attached) =>
          /\ spot'.reported
          /\ spot'.threw = "none"
          /\ spot'.spotlight = spot.spotlight]_vars

\* C15: kill() removes the four panels from the document; on a Spotlight
\* whose panels are not in the document it raises no error and changes
\* neither the document nor the Spotlight.
C15_KillIsIdempotent ==
    [][Kill =>
          /\ ~spot'.attached
          /\ spot'.threw = "none"
          /\ ~spot.attached =>
                /\ spot'.spotlight = spot.spotlight
                /\ spot'.padding = spot.padding
                /\ spot'.reported = spot.reported]_vars

\* C15 witness: kill() was called twice in a row.
C15_Witness ==
    /\ spot.log = <<"kill", "kill">>
    /\ ~spot.attached
    /\ Len(spot.spotlight) = 4

\* C18: the position getCenterPos() returns for a popup of width pw and height
\* ph in a window of width vw and height vh satisfies x + pw/2 = vw/2 and
\* y + ph/2 = vh/2.
C18_CenteredPopup ==
    layout.calls = 1 =>
        /\ SameNumber(Plus(layout.pos.x, Quot(layout.popupRect.width, 2)),
                      Quot(layout.window.innerWidth, 2))
        /\ SameNumber(Plus(layout.pos.y, Quot(layout.popupRect.height, 2)),
                      Quot(layout.window.innerHeight, 2))

\* C18 witness: getCenterPos() was called for a popup of odd width, wider
\* than the window, in a window of even width and odd height.
C18_Witness ==
    /\ layout.calls = 1
    /\ layout.popupRect.width % 2 = 1
    /\ layout.popupRect.width > layout.window.innerWidth
    /\ layout.window.innerWidth % 2 = 0
    /\ layout.window.innerHeight % 2 = 1

\* C16: whenever a step is rendered, the popup's text is the step's text
\* with every occurrence of PLACEHOLDER-X replaced by the value the text
\* variables give for X, and every other placeholder left as it is.
C16_EveryOccurrenceReplaced ==
    [][\A t \in tours :
          ( /\ popupHtml'[t] # popupHtml[t]
            /\ popupHtml'[t].index \in 0 .. Len(steps[t]) - 1 ) =>
              popupHtml'[t].text =
                  FormatAll(steps[t][popupHtml'[t].index + 1].text, textVariables[t])]_vars

\* C17: the buttons of the popup of a rendered step i of a tour of N steps:
\* a previous button exactly when i # 0, the next button with the end label
\* exactly when i = N - 1; the labels are Retour, Suivant, Terminer le tour
\* for the language "fr" and Previous, Next, End tour for any other value.
C17_ButtonsFollowPositionAndLanguage ==
    \A t \in tours :
        popupHtml[t].index \in 0 .. Len(steps[t]) - 1 =>
            LET i == popupHtml[t].index
                fr == options[t].language = "fr"
            IN /\ popupHtml[t].prev =
                    IF i = 0 THEN Null ELSE IF fr THEN "Retour" ELSE "Previous"
               /\ popupHtml[t].next =
                    IF i = Len(steps[t]) - 1
                    THEN IF fr THEN "Terminer le tour" ELSE "End tour"
                    ELSE IF fr THEN "Suivant" ELSE "Next"

\* C17 witness: the last of two steps is rendered with the language "fr".
C17_Witness ==
    \E t \in tours :
        /\ options[t].language = "fr"
        /\ Len(steps[t]) = 2
        /\ popupHtml[t].index = 1
        /\ popupHtml[t].prev = "Retour"
        /\ popupHtml[t].next = "Terminer le tour"

\* C19: start(), next() or previous() that arrives, on a started tour, at a
\* step without target element (no id, or an id no element of the document
\* has) raises nothing, leaves the popup at the centre of the viewport and,
\* when the spotlight option is on, leaves the spotlight blacked out.
C19_NoTargetIsCentered ==
    [][\A t \in tours :
          ( /\ \/ Start(t) /\ currentState[t] # 1
               \/ Next_(t)
               \/ Previous(t)
            /\ currentState'[t] = 1
            /\ step'[t] \in 0 .. Len(steps[t]) - 1
            /\ getElementById(steps[t][step'[t] + 1].id) = Null ) =>
              /\ Start(t) => start(Cur, t).threw = "none"
              /\ Next_(t) => next(Cur, t).threw = "none"
              /\ Previous(t) => previous(Cur, t).threw = "none"
              /\ currentElement'[t] = Null
              /\ popupPos'[t] = "center"
              /\ options[t].spotlight => spotlightAt'[t] = "blackout"]_vars

\* C20: previous() decrements the index by exactly one, also at index 0 and
\* below, and calls makeStep() once; when the new index names a step and the
\* tour has a popup, the popup then shows that step.
C20_PreviousDecrementsUnguarded ==
    [][\A t \in tours :
          Previous(t) =>
              /\ step'[t] = step[t] - 1
              /\ previous(Cur, t).made = 1
              /\ (step'[t] \in 0 .. Len(steps[t]) - 1 /\ popupElement[t] # Null) =>
                    popupHtml'[t].index = step'[t]]_vars

\* C20 witness: previous() was called on a started tour at index 0: the
\* index is -1.
C20_Witness ==
    \E t \in tours :
        /\ currentState[t] = 1
        /\ step[t] = 0 - 1

\* the step at index i of tour t has a target the document holds, or no id
Renderable(t, i) ==
    /\ i \in 0 .. Len(steps[t]) - 1
    /\ steps[t][i + 1].id = NoId \/ getElementById(steps[t][i + 1].id) # Null

\* C21: a change of the spotlight option neither creates nor destroys the
\* spotlight; on a started tour, next() and previous() use the spotlight that
\* start() created whatever the option now says (a render places it on the
\* new target or blacks it out, the end of the tour removes its panels), and
\* raise nothing when start() created none.
C21_SpotlightOptionReadOnce ==
    [][\A t \in tours :
          /\ (WriteOption(t) \/ SetOptions(t)) =>
                UNCHANGED << spotlight, spotlightAt, strayPanels >>
          /\ (currentState[t] = 1 /\ (Next_(t) \/ Previous(t))
                /\ currentState'[t] = 1 /\ Renderable(t, step'[t])) =>
                /\ spotlight[t] = "attached" =>
                      spotlightAt'[t] = IF steps[t][step'[t] + 1].id = NoId
                                        THEN "blackout" ELSE steps[t][step'[t] + 1].id
                /\ spotlight[t] = Null =>
                      (Next_(t) => next(Cur, t).threw = "none")
                      /\ (Previous(t) => previous(Cur, t).threw = "none")
          /\ (currentState[t] = 1 /\ Next_(t) /\ currentState'[t] = 2) =>
                /\ spotlight[t] = "attached" => spotlight'[t] = "detached"
                /\ spotlight[t] = Null => next(Cur, t).threw = "none"]_vars

\* C23: the resize observer of a tour observes at most one element, the
\* tour's current target, and nothing once the tour is Finished.
C23_ObservesOnlyCurrentTarget ==
    \A t \in tours :
        /\ observed[t] \subseteq ({currentElement[t]} \ {Null})
        /\ currentState[t] = 2 => observed[t] = {}

\* C27: whenever makeStep() runs, from start(), next(), previous() or a
\* timer, the index is an index of the step list.
C27_RenderedIndexIsValid ==
    [][\A t \in tours :
          /\ (Start(t) /\ currentState[t] # 1) => step[t] \in 0 .. Len(steps[t]) - 1
          /\ Previous(t) => step'[t] \in 0 .. Len(steps[t]) - 1
          /\ (Next_(t) /\ next(Cur, t).made > 0) => step'[t] \in 0 .. Len(steps[t]) - 1
          /\ (WindowTimer(t) \/ StaleTimer(t) \/ ElementTimer(t)) =>
                step[t] \in 0 .. Len(steps[t]) - 1]_vars

\* C28: a tour has a popup in the document exactly when it is Started, and
\* start() appends a popup only when the tour has none in the document.
C28_OnePopupWhileStarted ==
    /\ \A t \in tours : currentState[t] = 1 <=> popupElement[t] = "attached"
    /\ [][\A t \in tours :
            /\ currentState'[t] = 1 <=> popupElement'[t] = "attached"
            /\ (Start(t) /\ start(Cur, t).starts[t] > starts[t]) =>
                  popupElement[t] # "attached"]_vars

\* C28 witness: a tour that was Finished has been started again and has its
\* popup in the document.
C28_Witness ==
    \E t \in tours :
        /\ starts[t] = 2
        /\ currentState[t] = 1
        /\ popupElement[t] = "attached"

\* C29: window.onscroll is the scroll lock of a tour only while that tour is
\* Started.
C29_ScrollLockOnlyWhileStarted ==
    \A t \in tours : onscroll = t => currentState[t] = 1

\* C30: next() or previous() that renders a step of a started tour while
\* options.disableScroll is false leaves window.onscroll without the tour's
\* scroll lock.
C30_DisableScrollReadAtRender ==
    [][\A t \in tours :
          ( /\ currentState[t] = 1
            /\ Next_(t) \/ Previous(t)
            /\ currentState'[t] = 1
            /\ Renderable(t, step'[t])
            /\ popupHtml'[t].index = step'[t]
            /\ ~options[t].disableScroll ) =>
              onscroll' # t]_vars

\* C22: after construction each option has its default (disableScroll true,
\* spotlight true, language "en", scrollMargin 50), and after setOptions(o)
\* each option has the value of o's member of that name, or its default when
\* o has no such member, whatever value it held before.
C22_SetOptionsResetsOmitted ==
    /\ \A t \in tours :
          /\ options[t].disableScroll = TRUE
          /\ options[t].spotlight = TRUE
          /\ options[t].language = "en"
          /\ options[t].scrollMargin = 50
    /\ [][\A t \in tours : \A o \in OptionObjects :
            (Becomes(setOptions(Cur, t, o)) /\ SetAnyOptions(t)) =>
                /\ options'[t].disableScroll =
                      IF "disableScroll" \in DOMAIN o THEN o.disableScroll ELSE TRUE
                /\ options'[t].spotlight =
                      IF "spotlight" \in DOMAIN o THEN o.spotlight ELSE TRUE
                /\ options'[t].language =
                      IF "language" \in DOMAIN o THEN o.language ELSE "en"
                /\ options'[t].scrollMargin =
                      IF "scrollMargin" \in DOMAIN o THEN o.scrollMargin ELSE 50]_vars

\* C22 witness: every option differed from its default and a setOptions call
\* without scrollMargin has put scrollMargin back to 50 while it set the
\* language to "fr".
C22_Witness ==
    \E t \in tours :
        /\ options[t].language = "fr"
        /\ options[t].scrollMargin = 50
        /\ ~options[t].disableScroll
        /\ options[t].spotlight

C25_SidePlacementStaysInside ==
    LET R == layout.rect
        P == layout.popupRect
        D == layout.docRect
    IN (layout.calls = 1 /\ 2 * (D.width - R.width) > D.width) =>
          /\ layout.pos.side \in
                IF 2 * (R.left + R.width) < D.width
                THEN {"right", "under"} ELSE {"left", "under"}
          /\ layout.pos.side \in {"right", "left"} =>
                /\ layout.pos.x.num >= 0
                /\ layout.pos.x.num + P.width * layout.pos.x.den
                      <= D.width * layout.pos.x.den

\* C26: the x and y getPopupPos() returns are never negative.
C26_PopupPosNonNegative ==
    layout.calls = 1 =>
        /\ layout.pos.x.num >= 0 /\ layout.pos.x.den > 0
        /\ layout.pos.y.num >= 0 /\ layout.pos.y.den > 0

\* C26 witness: getPopupPos() was called where pos before Math.abs had a
\* negative x and a negative y.
C26_Witness ==
    /\ layout.calls = 1
    /\ layout.raw.x.num < 0
    /\ layout.raw.y.num < 0
    /\ layout.pos.x.num > 0
    /\ layout.pos.y.num > 0

\* C31: a timeout of a debounced re-render, set by a window resize or an
\* element resize, leaves the state, the index, the step list, the options
\* and the text variables of every tour unchanged; what it writes into the
\* popup is the step at the index the tour has when the timeout runs, and
\* where it puts the popup and the spotlight is the place of that step.
C31_RerenderKeepsTourState ==
    [][\A t \in tours :
          (WindowTimer(t) \/ StaleTimer(t) \/ ElementTimer(t)) =>
              /\ UNCHANGED << tours, currentState, step, steps, options, textVariables >>
              /\ popupHtml'[t] # popupHtml[t] => popupHtml'[t].index = step[t]
              /\ popupPos'[t] # popupPos[t] =>
                    popupPos'[t] = IF StepAt(Cur, t).id = NoId THEN "center"
                                   ELSE StepAt(Cur, t).id
              /\ spotlightAt'[t] # spotlightAt[t] =>
                    spotlightAt'[t] = IF StepAt(Cur, t).id = NoId THEN "blackout"
                                      ELSE StepAt(Cur, t).id
              /\ \A u \in tours \ {t} :
                    UNCHANGED << popupHtml[u], popupPos[u], spotlightAt[u] >>]_vars

\* C31 witness: on a tour started without text variables and moved to its
\* second step, whose target is in the document, the page has given the
\* variables, and the timeout that ran next has written the step again, now
\* with the value in place of the first placeholder.
C31_Witness ==
    /\ roundTrip = Rerendered("page")
    /\ currentState["page"] = 1
    /\ step["page"] = 1
    /\ HasStep(Cur, "page")
    /\ StepAt(Cur, "page").id \in Elements
    /\ textVariables["page"] # <<>>
    /\ popupHtml["page"].index = 1
    /\ popupHtml["page"].text # StepAt(Cur, "page").text
    /\ popupPos["page"] = StepAt(Cur, "page").id

\* C32: while a tour a is Started, a start() of another tour b that starts
\* b, or a next() of b that ends b, leaves window.onresize with a's closure
\* when it held it, and window.onscroll with a's scroll lock when it held it.
C32_ToursDoNotInterfere ==
    [][\A a \in tours, b \in tours :
          ( /\ a # b
            /\ currentState[a] = 1
            /\ \/ Start(b) /\ currentState[b] # 1
               \/ Next_(b) /\ next(Cur, b).ended > 0 ) =>
              /\ onresize = a => onresize' = a
              /\ onscroll = a => onscroll' = a]_vars

\* C33: when the name of one text variable begins with the name of another,
\* the popup shows, for each placeholder of the step it renders, the value
\* of the variable the placeholder names, whatever the order of the
\* variables in the object given to setTextVariables().
C33_PrefixNamesKeepTheirValues ==
    \A t \in tours :
        popupHtml[t].index \in 0 .. Len(steps[t]) - 1 =>
            popupHtml[t].text =
                FormatAll(steps[t][popupHtml[t].index + 1].text,
                          LongestFirst(textVariables[t]))

====
